---------------------------- MODULE Spec2Model ----------------------------
(***************************************************************************)
(* RogueGPT (src/app.py): the placeholder-resolution and combinatorial-   *)
(* expansion engine of the two generation pages, as a state machine.       *)
(*                                                                         *)
(* Representation.  A Python str is a sequence of symbols.  The symbols    *)
(* "[", "]" and "\n" are those characters; every other symbol stands for   *)
(* the bracket-free, newline-free run of characters it spells ("Style",    *)
(* "en", ...).  No symbol is a prefix of another, so two strs are equal as *)
(* character strings exactly when they are equal as symbol sequences, and  *)
(* str.replace / re.findall act on symbols as they act on characters.      *)
(* A Python dict is a sequence of <<key, value>> pairs with distinct keys  *)
(* in insertion order.                                                     *)
(***************************************************************************)
EXTENDS Integers, Sequences, FiniteSets, TLC

(***************************************************************************)
(* Strings                                                                 *)
(***************************************************************************)

\* f"[[{key}]]"  (src/app.py:299, 503)
Token(key) == <<"[", "[">> \o key \o <<"]", "]">>

\* s.startswith(t, p) with p counted from 1
StartsAt(s, t, p) ==
    /\ p >= 1
    /\ p + Len(t) - 1 <= Len(s)
    /\ \A j \in 1..Len(t) : s[p + j - 1] = t[j]

\* s[p-1:] in Python terms: the suffix of s from position p (1-based)
From(s, p) == IF p > Len(s) THEN <<>> ELSE SubSeq(s, p, Len(s))

\* str.replace(old, new): every non-overlapping occurrence of old, found
\* left to right, becomes new; the text put in is not scanned again.
RECURSIVE replace(_, _, _)
replace(s, old, new) ==
    IF s = <<>> THEN <<>>
    ELSE IF StartsAt(s, old, 1)
         THEN new \o replace(From(s, Len(old) + 1), old, new)
         ELSE <<Head(s)>> \o replace(Tail(s), old, new)

\* The end of the shortest match of (.*?)\]\] started at p: the first q >= p
\* with "]]" at q and no newline in s[p..q-1] ('.' does not match "\n").
\* 0 when there is none.
RECURSIVE ClosingAt(_, _)
ClosingAt(s, q) ==
    IF q + 1 > Len(s) THEN 0
    ELSE IF s[q] = "]" /\ s[q + 1] = "]" THEN q
    ELSE IF s[q] = "\n" THEN 0
    ELSE ClosingAt(s, q + 1)

\* re.findall(r"\[\[(.*?)\]\]", s): the captured groups of the
\* non-overlapping matches, scanning from position p.
RECURSIVE findall_from(_, _)
findall_from(s, p) ==
    IF p + 3 > Len(s) THEN <<>>
    ELSE IF s[p] = "[" /\ s[p + 1] = "[" /\ ClosingAt(s, p + 2) # 0
         THEN LET q == ClosingAt(s, p + 2)
              IN  <<SubSeq(s, p + 2, q - 1)>> \o findall_from(s, q + 2)
         ELSE findall_from(s, p + 1)

findall(s) == findall_from(s, 1)

\* str.split("\n"): the lines of s, an empty s giving one empty line
RECURSIVE split_lines(_, _)
split_lines(s, cur) ==
    IF s = <<>> THEN <<cur>>
    ELSE IF Head(s) = "\n" THEN <<cur>> \o split_lines(Tail(s), <<>>)
         ELSE split_lines(Tail(s), Append(cur, Head(s)))

split(s) == split_lines(s, <<>>)

(***************************************************************************)
(* Dicts                                                                   *)
(***************************************************************************)

keys_of(d) == [i \in 1..Len(d) |-> d[i][1]]

has_key(d, k) == \E i \in 1..Len(d) : d[i][1] = k

get(d, k) == d[CHOOSE i \in 1..Len(d) : d[i][1] = k][2]

\* d[k] = v: an existing key keeps its place, a new key goes last
setitem(d, k, v) ==
    IF has_key(d, k)
    THEN [i \in 1..Len(d) |-> IF d[i][1] = k THEN <<k, v>> ELSE d[i]]
    ELSE Append(d, <<k, v>>)

\* x in list
contains(list, x) == \E i \in 1..Len(list) : list[i] = x

\* [x for x in list if x not in other]
RECURSIVE not_in(_, _)
not_in(list, other) ==
    IF list = <<>> THEN <<>>
    ELSE IF contains(other, Head(list)) THEN not_in(Tail(list), other)
         ELSE <<Head(list)>> \o not_in(Tail(list), other)


(***************************************************************************)
(* The configuration document (prompt_engine.json) and the names the code  *)
(* spells out                                                              *)
(***************************************************************************)

SeedPhrase == <<"SeedPhrase">>
SourceArticleTitle == <<"SourceArticleTitle">>
SourceArticleDescription == <<"SourceArticleDescription">>
SourceArticleUrl == <<"SourceArticleUrl">>
ISOLanguage == <<"ISOLanguage">>

\* A JSON value of data["Components"]: a list of strings or an object.
ListNode(values) == [kind |-> "list", list |-> values, items |-> <<>>]
DictNode(items) == [kind |-> "dict", list |-> <<>>, items |-> items]

\* {"ISOLanguage": ["en", "de"], "Tone": ["formal"]}
ComponentsFlat ==
    << <<ISOLanguage, ListNode(<< <<"en">>, <<"de">> >>)>>,
       <<<<"Tone">>, ListNode(<< <<"formal">> >>)>> >>

\* {"Style": {"NYT":  {"Tone": ["formal", "neutral"]},
\*            "Blog": {"Tone": ["casual"], "Slang": ["yes"]}},
\*  "ISOLanguage": ["en"]}
ComponentsNested ==
    << <<<<"Style">>,
         DictNode(<< <<<<"NYT">>,
                       DictNode(<< <<<<"Tone">>,
                                     ListNode(<< <<"formal">>, <<"neutral">> >>)>> >>)>>,
                     <<<<"Blog">>,
                       DictNode(<< <<<<"Tone">>, ListNode(<< <<"casual">> >>)>>,
                                   <<<<"Slang">>, ListNode(<< <<"yes">> >>)>> >>)>> >>)>>,
       <<ISOLanguage, ListNode(<< <<"en">> >>)>> >>

\* {}
ComponentsEmpty == <<>>

\* {"Style": {"NYT": {"Section": {"Politics": {"Register": ["high", "low"]}}}}}
\* a third level that repeats the category -> variant -> sub-category pattern
ComponentsDeep ==
    << <<<<"Style">>,
         DictNode(<< <<<<"NYT">>,
                       DictNode(<< <<<<"Section">>,
                                     DictNode(<< <<<<"Politics">>,
                                                   DictNode(<< <<<<"Register">>,
                                                                 ListNode(<< <<"high">>,
                                                                             <<"low">> >>)>>
                                                            >>)>> >>)>> >>)>> >>)>> >>

\* {"Style": {"NYT": {"Section": {"Politics": ["high"]}}}}
\* a sub-category whose value maps names to lists
ComponentsDeepLists ==
    << <<<<"Style">>,
         DictNode(<< <<<<"NYT">>,
                       DictNode(<< <<<<"Section">>,
                                     DictNode(<< <<<<"Politics">>,
                                                   ListNode(<< <<"high">> >>)>> >>)>>
                                >>)>> >>)>> >>

ComponentsSet ==
    {ComponentsFlat, ComponentsNested, ComponentsEmpty, ComponentsDeep, ComponentsDeepLists}

\* data["PromptTemplate"]
PromptTemplateSet ==
    { Token(<<"Tone">>) \o <<"about">> \o Token(SeedPhrase),
      Token(<<"Topic">>) \o Token(<<"Author">>),
      <<"about">> }

\* data["PromptTemplateForNewsBased"]
PromptTemplateForNewsBasedSet ==
    { Token(SourceArticleTitle) \o <<"about">> \o Token(SeedPhrase) }

\* data["TopicList"]
TopicList == << <<"cats">>, <<"dogs">> >>

\* The configuration documents load_json(CONFIG_FILE) may return.
DataSet ==
    [Components : ComponentsSet,
     PromptTemplate : PromptTemplateSet,
     PromptTemplateForNewsBased : PromptTemplateForNewsBasedSet,
     TopicList : {TopicList}]

(***************************************************************************)
(* collect_keys, render_ui, fix_structure                                  *)
(***************************************************************************)

\* collect_keys(component_dict, collected_keys): appends to collected_keys,
\* which it returns.  acc = [keys, err]; err is the AttributeError of
\* value[sub_key].items() on a value that is no dict.
RECURSIVE collect_items(_, _)
RECURSIVE collect_variants(_, _)
collect_items(items, acc) ==
    IF items = <<>> \/ acc.err THEN acc
    ELSE LET key == Head(items)[1]
             value == Head(items)[2]
             acc1 == [acc EXCEPT !.keys = Append(@, key)]
             acc2 == IF value.kind = "dict"
                     THEN collect_variants(value.items, acc1)
                     ELSE acc1
         IN  collect_items(Tail(items), acc2)
collect_variants(variants, acc) ==
    IF variants = <<>> \/ acc.err THEN acc
    ELSE LET sub == Head(variants)[2]
             acc1 == IF sub.kind = "dict"
                     THEN collect_items(sub.items, acc)
                     ELSE [acc EXCEPT !.err = TRUE]
         IN  collect_variants(Tail(variants), acc1)

collect_keys(component_dict, collected_keys) ==
    collect_items(component_dict, [keys |-> collected_keys, err |-> FALSE])

\* A value of user_selections: a str (isList FALSE, val the one-element
\* sequence holding it) or a list of strs (isList TRUE, val the list).
StrValue(s) == [isList |-> FALSE, val |-> <<s>>]
ListValue(l) == [isList |-> TRUE, val |-> l]

\* st.multiselect(options, default=options): the options the operator left
\* selected, in the options' order.
multiselect(options, deselected) ==
    SelectSeq(options, LAMBDA o : o \notin deselected)

\* st.selectbox(options): the option at the operator's index.
selectbox(options, v) == options[IF v <= Len(options) THEN v ELSE Len(options)]

\* The inner loop of render_ui over nested_dict.items().
RECURSIVE render_nested(_, _, _)
render_nested(nested, deselected, user_selections) ==
    IF nested = <<>> THEN user_selections
    ELSE LET nested_key == Head(nested)[1]
             nested_value == Head(nested)[2]
             sel == IF nested_value.kind = "list"
                    THEN setitem(user_selections, nested_key,
                                 ListValue(multiselect(nested_value.list, deselected)))
                    ELSE user_selections
         IN  render_nested(Tail(nested), deselected, sel)

\* The loop of render_ui over component_dict.items(); v and deselected are
\* what the operator does to the widgets.
RECURSIVE render_items(_, _, _, _)
render_items(items, v, deselected, user_selections) ==
    IF items = <<>> THEN user_selections
    ELSE LET key == Head(items)[1]
             value == Head(items)[2]
             sel ==
               IF value.kind = "dict"
               THEN LET selected_option == selectbox(keys_of(value.items), v)
                        nested_dict == get(value.items, selected_option)
                    IN  render_nested(nested_dict.items, deselected,
                             setitem(user_selections, key, StrValue(selected_option)))
               ELSE setitem(user_selections, key,
                            ListValue(multiselect(value.list, deselected)))
         IN  render_items(Tail(items), v, deselected, sel)

render_ui(component_dict, v, deselected) ==
    render_items(component_dict, v, deselected, <<>>)

\* fix_structure with the else branch lost: a single string stays as it is.
fix_structure_lists_only(selections) ==
    [j \in 1..Len(selections) |-> <<selections[j][1], selections[j][2]>>]

fix_structure(selections) ==
    [j \in 1..Len(selections) |->
        IF selections[j][2].isList
        THEN <<selections[j][1], selections[j][2]>>
        ELSE <<selections[j][1], ListValue(<<selections[j][2].val[1]>>)>>]

(***************************************************************************)
(* Expansion, merge, substitution                                          *)
(***************************************************************************)

\* itertools.product(*values): the rightmost list varies fastest.
RECURSIVE product(_)
product(values) ==
    IF values = <<>> THEN << <<>> >>
    ELSE LET rest == product(Tail(values))
             first == Head(values)
             n == Len(rest)
         IN  [p \in 1..(Len(first) * n) |->
                 <<first[((p - 1) \div n) + 1]>> \o rest[((p - 1) % n) + 1]]

\* dict(zip(keys, v))
dict_zip(keys, v) == [j \in 1..Len(keys) |-> <<keys[j], v[j]>>]

\* keys, values = zip(*iter_selections.items()): with no item the unpacking
\* of zip()'s empty result raises ValueError.
expansion_raises(iter_selections) == Len(iter_selections) = 0

\* The expansion with an empty value list read as "no value": [""].
expand_empty_as_blank(iter_selections) ==
    LET keys == keys_of(iter_selections)
        values == [j \in 1..Len(iter_selections) |->
                     IF iter_selections[j][2].val = <<>> THEN << <<>> >>
                     ELSE iter_selections[j][2].val]
        tuples == product(values)
    IN  [p \in 1..Len(tuples) |-> dict_zip(keys, tuples[p])]

\* [dict(zip(keys, v)) for v in itertools.product(*values)]
expand(iter_selections) ==
    LET keys == keys_of(iter_selections)
        values == [j \in 1..Len(iter_selections) |-> iter_selections[j][2].val]
        tuples == product(values)
    IN  [p \in 1..Len(tuples) |-> dict_zip(keys, tuples[p])]

\* A news article as get_news returns it for a keyword.
Article(keyword) ==
    [title |-> <<"title-of">> \o keyword,
     description |-> <<"description-of">> \o keyword,
     url |-> <<"url-of">> \o keyword]

articles_to_placeholder(articles) ==
    [a \in 1..Len(articles) |->
        << <<SourceArticleTitle, articles[a].title>>,
           <<SourceArticleDescription, articles[a].description>>,
           <<SourceArticleUrl, articles[a].url>> >>]

\* dict(a, **b)
RECURSIVE dict_update(_, _)
dict_update(a, b) ==
    IF b = <<>> THEN a
    ELSE dict_update(setitem(a, Head(b)[1], Head(b)[2]), Tail(b))

\* The merge with zip in place of itertools.product: the p-th combination
\* meets the p-th article only.
merge_zip(combinations, news_articles) ==
    LET m == IF Len(combinations) < Len(news_articles)
             THEN Len(combinations) ELSE Len(news_articles)
    IN  [p \in 1..m |-> dict_update(combinations[p], news_articles[p])]

\* [dict(el[0], **el[1]) for el in itertools.product(combinations, news_articles)]
merge(combinations, news_articles) ==
    LET m == Len(news_articles)
    IN  [p \in 1..(Len(combinations) * m) |->
            dict_update(combinations[((p - 1) \div m) + 1],
                        news_articles[((p - 1) % m) + 1])]

\* for key, value in combination.items():
\*     prompt_filled = prompt_filled.replace(f"[[{key}]]", value)
RECURSIVE fill(_, _)
fill(prompt_filled, combination) ==
    IF combination = <<>> THEN prompt_filled
    ELSE fill(replace(prompt_filled, Token(Head(combination)[1]), Head(combination)[2]),
              Tail(combination))


(***************************************************************************)
(* generate_fragment, save_fragment, the prompt previews                   *)
(***************************************************************************)

\* generate_fragment: "raised" is the ValueError of an api_type that is
\* neither 'OpenAI' nor 'AzureOpenAI', or the provider's own error
\* (provider_ok false); else the streamed response is returned.
generate_fragment(api_type, provider_ok) ==
    IF api_type \notin {"OpenAI", "AzureOpenAI"} THEN "raised"
    ELSE IF provider_ok THEN "returned" ELSE "raised"

\* save_fragment without its try/except: a failed insert propagates.
save_fragment_unguarded(insert_ok) ==
    [raised |-> ~insert_ok, error_reported |-> FALSE]

\* save_fragment: the insert is inside try/except Exception, so the call
\* always returns; a failed insert is reported with st.error.
save_fragment(insert_ok) ==
    [raised |-> FALSE, error_reported |-> ~insert_ok]

\* selections[0] if isinstance(selections, list) and selections else selections
selection_text(selections) ==
    IF selections.isList /\ selections.val # <<>>
    THEN StrValue(selections.val[1])
    ELSE selections

\* automatic_news_generation_ui, lines 263-267: replace() raises TypeError
\* when selection_text is a list, i.e. an empty list of selections.
preview_raises(selections) ==
    \E j \in 1..Len(selections) : selection_text(selections[j][2]).isList

\* The preview loop; an entry whose text is no str is skipped (line 419 of
\* news_from_trends_ui; in automatic_news_generation_ui it has raised).
RECURSIVE preview(_, _)
preview(prompt, selections) ==
    IF selections = <<>> THEN prompt
    ELSE LET text == selection_text(Head(selections)[2])
             next == IF text.isList THEN prompt
                     ELSE replace(prompt, Token(Head(selections)[1]), text.val[1])
         IN  preview(next, Tail(selections))

\* The loop over uncovered_placeholders: user_selections[placeholder] =
\* user_input.split("\n"), texts[j] being the text area's content.
RECURSIVE add_free_text(_, _, _)
add_free_text(user_selections, uncovered, texts) ==
    IF uncovered = <<>> THEN user_selections
    ELSE add_free_text(setitem(user_selections, Head(uncovered),
                               ListValue(split(Head(texts)))),
                       Tail(uncovered), Tail(texts))

\* The provenance fields the loop writes into the combination before saving
\* (the id, the response, the model, the flag and the date as one symbol each).
with_provenance(combination, filled) ==
    dict_update(combination,
        << <<<<"FragmentID">>, <<"uuid4">>>>,
           <<<<"Content">>, <<"generated_fragment">>>>,
           <<<<"Origin">>, <<"Machine">>>>,
           <<<<"MachineModel">>, <<"user_generator_model">>>>,
           <<<<"MachinePrompt">>, filled>>,
           <<<<"IsFake">>, <<"is_fake">>>>,
           <<<<"CreationDate">>, <<"today">>>> >>)

(***************************************************************************)
(* What the operator and the providers may supply                          *)
(***************************************************************************)

\* Longest list of trends get_trends returns.
MaxTrends == 2

Trends == << <<"cats">>, <<"dogs">>, <<"birds">>, <<"fish">> >>

TrendResults == {SubSeq(Trends, 1, n) : n \in 0..MaxTrends}

\* What the operator may type into a free-text area.
FreeTextSet ==
    { <<>>,
      <<"a", "\n", "b">>,
      Token(<<"Author">>) }

\* What the operator may leave in the "Prompt Template" input, given its default.
EditedTemplates(default) == {default, Token(<<"Topic">>) \o Token(SeedPhrase)}

\* data["GeneratorAPIType"], the options of the "Generator API Type" selectbox
GeneratorAPIType == {"OpenAI", "Ollama"}

\* Every option value of a taxonomy (what a multiselect can lose).
RECURSIVE option_values(_)
option_values(items) ==
    IF items = <<>> THEN {}
    ELSE LET value == Head(items)[2]
         IN  (IF value.kind = "list" THEN {value.list[j] : j \in 1..Len(value.list)}
              ELSE option_values(value.items))
             \cup option_values(Tail(items))

(***************************************************************************)
(* State                                                                   *)
(***************************************************************************)

VARIABLES
    data,                   \* load_json(CONFIG_FILE)
    clicked,                \* the Generate button whose click started this script run
    page,                   \* the page function being run: "news" then "auto"
    pc,                     \* the position in it
    default_keys,           \* the list object that is collect_keys' default argument
    all_possible_keys,
    user_selections,
    uncovered_placeholders,
    prompt_template,
    user_prompt_template,
    prompt,                 \* the prompt preview
    user_generator_api_type,
    automated_trends,
    based_on_real_news,
    recover_original_news,
    trends_list,
    news_articles,          \* the articles get_news returned (lines 458-469)
    article_placeholders,   \* news_articles as rebound by line 489
    iter_selections,
    option_combinations,    \* the list line 293 / 495 builds
    combinations,
    i,                      \* enumerate's index, from 1
    prompt_filled,
    calls,                  \* the generate_fragment and save_fragment calls, in order
    save_errors,            \* the st.error reports of save_fragment
    raised                  \* where the exception that ended the script run came from

vars == <<data, clicked, page, pc, default_keys, all_possible_keys, user_selections,
          uncovered_placeholders, prompt_template, user_prompt_template, prompt,
          user_generator_api_type, automated_trends, based_on_real_news,
          recover_original_news, trends_list, news_articles, article_placeholders,
          iter_selections, option_combinations, combinations, i, prompt_filled,
          calls, save_errors, raised>>

\* The locals of a page function before it has assigned them.
NoLocals ==
    /\ all_possible_keys' = <<>>
    /\ user_selections' = <<>>
    /\ uncovered_placeholders' = <<>>
    /\ prompt_template' = <<>>
    /\ user_prompt_template' = <<>>
    /\ prompt' = <<>>
    /\ user_generator_api_type' = "OpenAI"
    /\ automated_trends' = FALSE
    /\ based_on_real_news' = FALSE
    /\ recover_original_news' = FALSE
    /\ trends_list' = <<>>
    /\ news_articles' = <<>>
    /\ article_placeholders' = <<>>
    /\ iter_selections' = <<>>
    /\ option_combinations' = <<>>
    /\ combinations' = <<>>
    /\ i' = 1
    /\ prompt_filled' = <<>>
    /\ calls' = <<>>
    /\ save_errors' = 0

\* A script run starts: the module is executed, which defines collect_keys
\* with a fresh default list, and news_from_trends_ui is called first.
Init ==
    /\ data \in DataSet
    /\ clicked \in {"none", "news", "auto"}
    /\ page = "news"
    /\ pc = "keys"
    /\ default_keys = <<>>
    /\ all_possible_keys = <<>>
    /\ user_selections = <<>>
    /\ uncovered_placeholders = <<>>
    /\ prompt_template = <<>>
    /\ user_prompt_template = <<>>
    /\ prompt = <<>>
    /\ user_generator_api_type = "OpenAI"
    /\ automated_trends = FALSE
    /\ based_on_real_news = FALSE
    /\ recover_original_news = FALSE
    /\ trends_list = <<>>
    /\ news_articles = <<>>
    /\ article_placeholders = <<>>
    /\ iter_selections = <<>>
    /\ option_combinations = <<>>
    /\ combinations = <<>>
    /\ i = 1
    /\ prompt_filled = <<>>
    /\ calls = <<>>
    /\ save_errors = 0
    /\ raised = "no"


(***************************************************************************)
(* The two page functions, step by step                                    *)
(***************************************************************************)

\* all_possible_keys = collect_keys(components): no accumulator is passed, so
\* the default list object is appended to and returned (lines 240, 376).
CollectKeys ==
    /\ pc = "keys"
    /\ LET r == collect_keys(data.Components, default_keys)
       IN  /\ default_keys' = r.keys
           /\ IF r.err
              THEN /\ pc' = "raised"
                   /\ raised' = "collect_keys"
                   /\ UNCHANGED all_possible_keys
              ELSE /\ pc' = IF page = "news" THEN "extend" ELSE "render"
                   /\ all_possible_keys' = r.keys
                   /\ UNCHANGED raised
    /\ UNCHANGED <<data, clicked, page, user_selections, uncovered_placeholders,
                   prompt_template, user_prompt_template, prompt,
                   user_generator_api_type, automated_trends, based_on_real_news,
                   recover_original_news, trends_list, news_articles, article_placeholders,
                   iter_selections,
                   option_combinations, combinations, i, prompt_filled, calls,
                   save_errors>>

\* news_from_trends_ui, lines 377-378: += extends the list object in place,
\* and that object is collect_keys' default list.
ExtendKeys ==
    /\ pc = "extend"
    /\ all_possible_keys' = all_possible_keys \o
           <<SeedPhrase, SourceArticleTitle, SourceArticleDescription, SourceArticleUrl>>
    /\ default_keys' = all_possible_keys'
    /\ pc' = "render"
    /\ UNCHANGED <<data, clicked, page, user_selections, uncovered_placeholders,
                   prompt_template, user_prompt_template, prompt,
                   user_generator_api_type, automated_trends, based_on_real_news,
                   recover_original_news, trends_list, news_articles, article_placeholders,
                   iter_selections,
                   option_combinations, combinations, i, prompt_filled, calls,
                   save_errors, raised>>

\* news_from_trends_ui, lines 380-452: the widgets and the preview.
NewsRender ==
    /\ pc = "render"
    /\ page = "news"
    /\ \E v \in 1..2, deselected \in SUBSET option_values(data.Components),
          automated \in BOOLEAN, based \in BOOLEAN, recover \in BOOLEAN,
          deselected_topics \in SUBSET {TopicList[j] : j \in 1..Len(TopicList)},
          api_type \in GeneratorAPIType :
        LET template == IF based THEN data.PromptTemplateForNewsBased
                        ELSE data.PromptTemplate
            trends == IF automated THEN <<>>
                      ELSE multiselect(data.TopicList, deselected_topics)
        IN  \E edited \in EditedTemplates(template) :
            LET uncovered == not_in(findall(edited), all_possible_keys)
            IN  \E texts \in [1..Len(uncovered) -> FreeTextSet] :
                LET selections == add_free_text(
                        render_ui(data.Components, v, deselected), uncovered, texts)
                    shown == preview(template, selections)
                IN  /\ automated_trends' = automated
                    /\ trends_list' = trends
                    /\ based_on_real_news' = based
                    /\ prompt_template' = template
                    /\ user_prompt_template' = edited
                    /\ uncovered_placeholders' = uncovered
                    /\ user_selections' = selections
                    /\ prompt' = IF Len(trends) > 0
                                 THEN replace(shown, Token(SeedPhrase), trends[1])
                                 ELSE shown
                    /\ user_generator_api_type' = api_type
                    /\ recover_original_news' = (based /\ recover)
    /\ pc' = "button"
    /\ UNCHANGED <<data, clicked, page, default_keys, all_possible_keys, news_articles,
                   article_placeholders,
                   iter_selections, option_combinations, combinations, i,
                   prompt_filled, calls, save_errors, raised>>

\* automatic_news_generation_ui, lines 242-286: the scan of the configured
\* template, the widgets and the preview, whose replace() raises TypeError
\* on an empty list of selections.
AutoRender ==
    /\ pc = "render"
    /\ page = "auto"
    /\ \E v \in 1..2, deselected \in SUBSET option_values(data.Components),
          edited \in EditedTemplates(data.PromptTemplate),
          api_type \in GeneratorAPIType :
        LET placeholders == findall(data.PromptTemplate)
            uncovered == not_in(placeholders, all_possible_keys)
        IN  \E texts \in [1..Len(uncovered) -> FreeTextSet] :
            LET selections == add_free_text(
                    render_ui(data.Components, v, deselected), uncovered, texts)
            IN  /\ prompt_template' = data.PromptTemplate
                /\ uncovered_placeholders' = uncovered
                /\ user_prompt_template' = edited
                /\ user_selections' = selections
                /\ IF preview_raises(selections)
                   THEN /\ pc' = "raised"
                        /\ raised' = "preview"
                        /\ UNCHANGED <<prompt, user_generator_api_type>>
                   ELSE /\ pc' = "button"
                        /\ prompt' = preview(data.PromptTemplate, selections)
                        /\ user_generator_api_type' = api_type
                        /\ UNCHANGED raised
    /\ UNCHANGED <<data, clicked, page, default_keys, all_possible_keys,
                   automated_trends, based_on_real_news, recover_original_news,
                   trends_list, news_articles, article_placeholders,
                   iter_selections, option_combinations,
                   combinations, i, prompt_filled, calls, save_errors>>

\* if st.button("Generate"): true only in the run the button's click started.
Button ==
    /\ pc = "button"
    /\ pc' = IF clicked # page THEN "returned"
             ELSE IF page = "news" THEN "fetch" ELSE "expand"
    /\ UNCHANGED <<data, clicked, page, default_keys, all_possible_keys,
                   user_selections, uncovered_placeholders, prompt_template,
                   user_prompt_template, prompt, user_generator_api_type,
                   automated_trends, based_on_real_news, recover_original_news,
                   trends_list, news_articles, article_placeholders,
                   iter_selections, option_combinations,
                   combinations, i, prompt_filled, calls, save_errors, raised>>

\* [get_news(keyword, ...) for the keywords that yield an article]
RECURSIVE found_articles(_, _, _)
found_articles(trends, found, j) ==
    IF j > Len(trends) THEN <<>>
    ELSE (IF j \in found THEN <<Article(trends[j])>> ELSE <<>>)
         \o found_articles(trends, found, j + 1)

\* news_from_trends_ui, lines 455-469: the trends and the articles.
\* user_selections["ISOLanguage"][0] raises KeyError or IndexError.
Fetch ==
    /\ pc = "fetch"
    /\ \E fetched \in TrendResults :
        LET trends == IF automated_trends THEN fetched ELSE trends_list
            no_language ==
                \/ ~has_key(user_selections, ISOLanguage)
                \/ get(user_selections, ISOLanguage).val = <<>>
        IN  /\ trends_list' = trends
            /\ IF based_on_real_news /\ Len(trends) > 0 /\ no_language
               THEN /\ pc' = "raised"
                    /\ raised' = "get_news"
                    /\ UNCHANGED news_articles
               ELSE /\ pc' = "originals"
                    /\ UNCHANGED raised
                    /\ IF based_on_real_news
                       THEN \E found \in SUBSET (1..Len(trends)) :
                               news_articles' = found_articles(trends, found, 1)
                       ELSE news_articles' = <<>>
    /\ UNCHANGED <<data, article_placeholders, clicked, page, default_keys, all_possible_keys,
                   user_selections, uncovered_placeholders, prompt_template,
                   user_prompt_template, prompt, user_generator_api_type,
                   automated_trends, based_on_real_news, recover_original_news,
                   iter_selections, option_combinations, combinations, i,
                   prompt_filled, calls, save_errors>>

\* news_from_trends_ui, lines 471-485: each retrieved article is saved;
\* failed of the inserts fail and are reported.
SaveOriginals ==
    /\ pc = "originals"
    /\ IF recover_original_news
       THEN /\ calls' = calls \o
                  [a \in 1..Len(news_articles) |-> <<"save_fragment", "Human", a>>]
            /\ \E failed \in 0..Len(news_articles) :
                  save_errors' = save_errors + failed
       ELSE UNCHANGED <<calls, save_errors>>
    /\ pc' = "expand"
    /\ UNCHANGED <<data, clicked, page, default_keys, all_possible_keys,
                   user_selections, uncovered_placeholders, prompt_template,
                   user_prompt_template, prompt, user_generator_api_type,
                   automated_trends, based_on_real_news, recover_original_news,
                   trends_list, news_articles, article_placeholders,
                   iter_selections, option_combinations,
                   combinations, i, prompt_filled, raised>>

\* Lines 290-293 and 489-495: normalisation and Cartesian expansion.
Expand ==
    /\ pc = "expand"
    /\ LET fixed == fix_structure(user_selections)
           selections == IF page = "news"
                         THEN setitem(fixed, SeedPhrase, ListValue(trends_list))
                         ELSE fixed
       IN  /\ iter_selections' = selections
           /\ article_placeholders' = IF page = "news"
                                      THEN articles_to_placeholder(news_articles)
                                      ELSE article_placeholders
           /\ IF expansion_raises(selections)
              THEN /\ pc' = "raised"
                   /\ raised' = "expansion"
                   /\ UNCHANGED <<option_combinations, combinations>>
              ELSE /\ pc' = IF page = "news" THEN "merge" ELSE "generate"
                   /\ option_combinations' = expand(selections)
                   /\ combinations' = option_combinations'
                   /\ UNCHANGED raised
    /\ UNCHANGED <<data, clicked, page, default_keys, all_possible_keys,
                   user_selections, uncovered_placeholders, prompt_template,
                   user_prompt_template, prompt, user_generator_api_type,
                   automated_trends, based_on_real_news, recover_original_news,
                   trends_list, news_articles, i, prompt_filled, calls, save_errors>>

\* news_from_trends_ui, lines 496-497: the cross-join with the articles.
Merge ==
    /\ pc = "merge"
    /\ combinations' = IF based_on_real_news
                       THEN merge(combinations, article_placeholders)
                       ELSE combinations
    /\ pc' = "generate"
    /\ UNCHANGED <<data, clicked, page, default_keys, all_possible_keys,
                   user_selections, uncovered_placeholders, prompt_template,
                   user_prompt_template, prompt, user_generator_api_type,
                   automated_trends, based_on_real_news, recover_original_news,
                   trends_list, news_articles, article_placeholders,
                   iter_selections, option_combinations,
                   i, prompt_filled, calls, save_errors, raised>>

\* Lines 296-310 and 500-514: the prompt of combination i is filled and
\* generate_fragment is called; nothing in the loop catches what it raises.
Generate ==
    /\ pc = "generate"
    /\ i <= Len(combinations)
    /\ prompt_filled' = fill(prompt_template, combinations[i])
    /\ calls' = Append(calls, <<"generate_fragment", "Machine", i>>)
    /\ \E provider_ok \in BOOLEAN :
        IF generate_fragment(user_generator_api_type, provider_ok) = "raised"
        THEN /\ pc' = "raised"
             /\ raised' = "generate_fragment"
        ELSE /\ pc' = "save"
             /\ UNCHANGED raised
    /\ UNCHANGED <<data, clicked, page, default_keys, all_possible_keys,
                   user_selections, uncovered_placeholders, prompt_template,
                   user_prompt_template, prompt, user_generator_api_type,
                   automated_trends, based_on_real_news, recover_original_news,
                   trends_list, news_articles, article_placeholders,
                   iter_selections, option_combinations,
                   combinations, i, save_errors>>

\* Lines 312-323 and 517-530: the provenance fields and save_fragment.
Save ==
    /\ pc = "save"
    /\ combinations' = [combinations EXCEPT
                           ![i] = with_provenance(combinations[i], prompt_filled)]
    /\ calls' = Append(calls, <<"save_fragment", "Machine", i>>)
    /\ \E insert_ok \in BOOLEAN :
        LET r == save_fragment(insert_ok)
        IN  /\ save_errors' = save_errors + (IF r.error_reported THEN 1 ELSE 0)
            /\ IF r.raised
               THEN /\ pc' = "raised"
                    /\ raised' = "save_fragment"
                    /\ UNCHANGED i
               ELSE /\ pc' = "generate"
                    /\ i' = i + 1
                    /\ UNCHANGED raised
    /\ UNCHANGED <<data, clicked, page, default_keys, all_possible_keys,
                   user_selections, uncovered_placeholders, prompt_template,
                   user_prompt_template, prompt, user_generator_api_type,
                   automated_trends, based_on_real_news, recover_original_news,
                   trends_list, news_articles, article_placeholders,
                   iter_selections, option_combinations,
                   prompt_filled>>

\* The for loop is exhausted: the page function is about to return.
LoopExit ==
    /\ pc = "generate"
    /\ i > Len(combinations)
    /\ pc' = "returned"
    /\ UNCHANGED <<data, clicked, page, default_keys, all_possible_keys,
                   user_selections, uncovered_placeholders, prompt_template,
                   user_prompt_template, prompt, user_generator_api_type,
                   automated_trends, based_on_real_news, recover_original_news,
                   trends_list, news_articles, article_placeholders,
                   iter_selections, option_combinations,
                   combinations, i, prompt_filled, calls, save_errors, raised>>

\* Lines 540-544: news_from_trends_ui returns and automatic_news_generation_ui
\* is called; its locals are new, collect_keys' default list is not.
NextPage ==
    /\ pc = "returned"
    /\ page = "news"
    /\ page' = "auto"
    /\ pc' = "keys"
    /\ NoLocals
    /\ UNCHANGED <<data, clicked, default_keys, raised>>

\* automatic_news_generation_ui returns; manual_data_entry_ui, which follows,
\* reads and writes none of this state, and the script run is over.
EndRun ==
    /\ pc = "returned"
    /\ page = "auto"
    /\ pc' = "end"
    /\ UNCHANGED <<data, clicked, page, default_keys, all_possible_keys,
                   user_selections, uncovered_placeholders, prompt_template,
                   user_prompt_template, prompt, user_generator_api_type,
                   automated_trends, based_on_real_news, recover_original_news,
                   trends_list, news_articles, article_placeholders,
                   iter_selections, option_combinations,
                   combinations, i, prompt_filled, calls, save_errors, raised>>

\* Streamlit runs the script again from the top, in a fresh module: a new
\* collect_keys with a new default list, the same configuration file.
Rerun ==
    /\ pc \in {"end", "raised"}
    /\ clicked' \in {"none", "news", "auto"}
    /\ page' = "news"
    /\ pc' = "keys"
    /\ default_keys' = <<>>
    /\ raised' = "no"
    /\ NoLocals
    /\ UNCHANGED data

Next ==
    \/ CollectKeys
    \/ ExtendKeys
    \/ NewsRender
    \/ AutoRender
    \/ Button
    \/ Fetch
    \/ SaveOriginals
    \/ Expand
    \/ Merge
    \/ Generate
    \/ Save
    \/ LoopExit
    \/ NextPage
    \/ EndRun
    \/ Rerun

Spec == Init /\ [][Next]_vars


(***************************************************************************)
(* The expansion pipeline on any Selection Set: the state is that of a     *)
(* page whose Generate button was clicked, with the selections, trends and *)
(* articles drawn from bounded sets.                                       *)
(***************************************************************************)

\* Most placeholder axes of a Selection Set.
MaxAxes == 2

\* Longest value list of a Selection Set.
MaxListLen == 2

\* Placeholder names, none of them one the code reserves (SeedPhrase and the
\* three SourceArticle names), which no taxonomy is meant to define.
AxisNames == {<<"A">>, <<"B">>, <<"C">>}

AxisOptions == << <<"a">>, <<"b">>, <<"c">>, <<"d">> >>

\* The sequences over S of length at most n.
SeqsUpTo(S, n) == UNION {[1..k -> S] : k \in 0..n}

\* A value of a Selection Set: one str, or a list of strs (the first options,
\* or one option twice).
SelectionValues ==
    {StrValue(<<"a">>), ListValue(<< <<"a">>, <<"a">> >>)}
    \cup {ListValue(SubSeq(AxisOptions, 1, n)) : n \in 0..MaxListLen}

\* The key sequences a dict may have: at most MaxAxes distinct keys.
KeySequences ==
    {q \in SeqsUpTo(AxisNames, MaxAxes) : \A a, b \in 1..Len(q) : a # b => q[a] # q[b]}

\* The Selection Sets render_ui and the free-text loop may leave.
SelectionSets ==
    UNION { { [j \in 1..Len(ks) |-> <<ks[j], vs[j]>>] :
                  vs \in [1..Len(ks) -> SelectionValues] } : ks \in KeySequences }

InitExpansion ==
    /\ data = [Components |-> ComponentsEmpty,
               PromptTemplate |-> <<"about">>,
               PromptTemplateForNewsBased |-> <<"about">>,
               TopicList |-> TopicList]
    /\ page \in {"news", "auto"}
    /\ clicked = page
    /\ pc = "expand"
    /\ default_keys = <<>>
    /\ all_possible_keys = <<>>
    /\ user_selections \in SelectionSets
    /\ uncovered_placeholders = <<>>
    /\ prompt_template = <<"about">>
    /\ user_prompt_template = <<"about">>
    /\ prompt = <<"about">>
    /\ user_generator_api_type = "OpenAI"
    /\ automated_trends = FALSE
    /\ based_on_real_news \in (IF page = "news" THEN BOOLEAN ELSE {FALSE})
    /\ recover_original_news = FALSE
    /\ trends_list \in (IF page = "news" THEN TrendResults ELSE {<<>>})
    /\ news_articles \in
          (IF based_on_real_news
           THEN {found_articles(trends_list, found, 1) :
                    found \in SUBSET (1..Len(trends_list))}
           ELSE {<<>>})
    /\ article_placeholders = <<>>
    /\ iter_selections = <<>>
    /\ option_combinations = <<>>
    /\ combinations = <<>>
    /\ i = 1
    /\ prompt_filled = <<>>
    /\ calls = <<>>
    /\ save_errors = 0
    /\ raised = "no"

NextExpansion ==
    \/ Expand
    \/ Merge

ExpansionSpec == InitExpansion /\ [][NextExpansion]_vars


(***************************************************************************)
(* Properties                                                              *)
(***************************************************************************)

\* The expansion step of the running page has been executed and returned.
Expanded ==
    \/ pc \in {"merge", "generate", "save"}
    \/ clicked = page /\ pc \in {"returned", "end"}
    \/ pc = "raised" /\ raised \in {"generate_fragment", "save_fragment"}

\* The value lists of a normalized Selection Set.
ValueLists(selections) == [j \in 1..Len(selections) |-> selections[j][2].val]

RECURSIVE ProductOfLengths(_)
ProductOfLengths(lists) ==
    IF lists = <<>> THEN 1 ELSE Len(Head(lists)) * ProductOfLengths(Tail(lists))

NoDuplicates(list) == \A a, b \in 1..Len(list) : a # b => list[a] # list[b]

\* One index into every value list: a tuple of the Cartesian product.
IndexTuples(lists) ==
    LET longest == IF lists = <<>> THEN 0
                   ELSE CHOOSE n \in {Len(lists[j]) : j \in 1..Len(lists)} :
                            \A j \in 1..Len(lists) : Len(lists[j]) <= n
    IN  {f \in [1..Len(lists) -> 1..longest] : \A j \in 1..Len(lists) : f[j] <= Len(lists[j])}

IsCartesianProduct(combos, selections) ==
    LET lists == ValueLists(selections)
    IN  /\ Len(combos) = ProductOfLengths(lists)
        /\ \A p \in 1..Len(combos) : keys_of(combos[p]) = keys_of(selections)
        /\ \A f \in IndexTuples(lists) :
              \E p \in 1..Len(combos) :
                 \A j \in 1..Len(lists) : combos[p][j][2] = lists[j][f[j]]
        /\ (\A j \in 1..Len(lists) : NoDuplicates(lists[j])) => NoDuplicates(combos)

\* C1: for every normalized Selection Set, with any number of axes, the
\* expansion step returns (it does not raise) a list whose length is the
\* product of the list lengths, in which every tuple of the Cartesian product
\* appears, none twice when the lists have no duplicates, and every
\* combination has the Selection Set's keys in its iteration order.
C1_ExpansionIsCartesianProduct ==
    /\ raised # "expansion"
    /\ Expanded => IsCartesianProduct(option_combinations, iter_selections)

\* The template with every occurrence of a token [[Name]], Name a key of the
\* combination, replaced by the combination's value, read left to right, and
\* every other symbol kept.
RECURSIVE Substituted(_, _)
Substituted(template, combination) ==
    IF template = <<>> THEN <<>>
    ELSE IF \E j \in 1..Len(combination) : StartsAt(template, Token(combination[j][1]), 1)
         THEN LET j == CHOOSE k \in 1..Len(combination) :
                           StartsAt(template, Token(combination[k][1]), 1)
              IN  combination[j][2]
                  \o Substituted(From(template, Len(Token(combination[j][1])) + 1),
                                 combination)
         ELSE <<Head(template)>> \o Substituted(Tail(template), combination)

\* C2: the per-combination substitution loop of automatic_news_generation_ui
\* returns the template in which every occurrence of [[Name]], Name a key of
\* the combination, is replaced by the combination's value and all other
\* text, every [[Z]] with Z no key included, is unchanged.
C2_SubstitutionReplacesExactlyTheKeys ==
    (page = "auto" /\ pc = "save") =>
        prompt_filled = Substituted(prompt_template, combinations[i])

\* news_from_trends_ui has just run its merge step with merging engaged.
Merged ==
    /\ page = "news"
    /\ pc = "generate"
    /\ i = 1
    /\ based_on_real_news

\* C3: with news-based merging engaged, n option combinations and m external
\* records yield exactly n*m merged mappings, one per (combination, record)
\* pair, each pair once, in a fixed order; the merged mapping holds all of
\* the combination's entries plus SourceArticleTitle, SourceArticleDescription
\* and SourceArticleUrl carrying that record's title, description and url.
C3_MergeIsTotalCrossJoin ==
    Merged =>
        LET n == Len(option_combinations)
            m == Len(news_articles)
        IN  /\ Len(combinations) = n * m
            /\ \A a \in 1..n, b \in 1..m :
                  LET merged == combinations[(a - 1) * m + b]
                      option == option_combinations[a]
                  IN  /\ keys_of(merged) = keys_of(option) \o
                            <<SourceArticleTitle, SourceArticleDescription,
                              SourceArticleUrl>>
                      /\ \A j \in 1..Len(option) : merged[j] = option[j]
                      /\ get(merged, SourceArticleTitle) = news_articles[b].title
                      /\ get(merged, SourceArticleDescription) =
                            news_articles[b].description
                      /\ get(merged, SourceArticleUrl) = news_articles[b].url

\* Two combinations have been merged with two records.
C3_Witness ==
    /\ Merged
    /\ Len(option_combinations) >= 2
    /\ Len(news_articles) = 2
    /\ Len(combinations) = 2 * Len(option_combinations)

\* fix_structure has been applied to user_selections by the running page.
Normalized == Expanded \/ (pc = "raised" /\ raised = "expansion")

\* C10: fix_structure returns a mapping with the same keys in the same order
\* in which every list value is passed through unchanged and every other
\* value v becomes the singleton list [v]; applied to its own result it
\* returns that result.  (In news_from_trends_ui the SeedPhrase axis is put
\* after the entries fix_structure returned.)
C10_FixStructureNormalizes ==
    Normalized =>
        LET fixed == SubSeq(iter_selections, 1, Len(user_selections))
        IN  /\ Len(iter_selections) =
                  Len(user_selections) + (IF page = "news" THEN 1 ELSE 0)
            /\ keys_of(fixed) = keys_of(user_selections)
            /\ \A j \in 1..Len(user_selections) :
                  /\ fixed[j][2].isList
                  /\ user_selections[j][2].isList =>
                        fixed[j][2].val = user_selections[j][2].val
                  /\ ~user_selections[j][2].isList =>
                        fixed[j][2].val = <<user_selections[j][2].val[1]>>
            /\ fix_structure(fixed) = fixed

\* A Selection Set with a single string and a two-element list has been
\* normalized.
C10_Witness ==
    /\ Normalized
    /\ \E j \in 1..Len(user_selections) :
          ~user_selections[j][2].isList /\ iter_selections[j][2].isList
    /\ \E j \in 1..Len(user_selections) :
          user_selections[j][2].isList /\ Len(iter_selections[j][2].val) = 2


\* The placeholder names of the option taxonomy: the category names and the
\* sub-category names two levels down.
TaxonomyNames(components) ==
    {components[j][1] : j \in 1..Len(components)}
    \cup UNION { UNION { {components[j][2].items[v][2].items[k][1] :
                             k \in 1..Len(components[j][2].items[v][2].items)} :
                         v \in 1..Len(components[j][2].items) } :
                 j \in {c \in 1..Len(components) : components[c][2].kind = "dict"} }

\* C4: on every render of automatic_news_generation_ui, whatever calls to
\* collect_keys came earlier in the script run, uncovered_placeholders is the
\* sequence of the names found between [[ and ]] in the template, in order
\* and with duplicates, that are no placeholder name of the option taxonomy.
C4_UncoveredAreExactlyTheUnknown ==
    (page = "auto" /\ pc = "button") =>
        uncovered_placeholders =
            SelectSeq(findall(prompt_template),
                      LAMBDA ph : ph \notin TaxonomyNames(data.Components))

\* C5: collect_keys(components) is pure: whatever calls and in-place
\* extensions came before, it returns the list of the taxonomy's placeholder
\* names, one entry per occurrence in the tree, which is the list the first
\* call returned; no name added by or after an earlier call is in it.
C5_CollectKeysIsPure ==
    (pc = "extend" \/ (page = "auto" /\ pc = "render")) =>
        all_possible_keys = collect_keys(data.Components, <<>>).keys

\* C6: in news_from_trends_ui with news-based generation requested, when no
\* external record was retrieved the final combination list is the
\* option-combination list of the expansion, unmodified.
C6_NoRecordsKeepsOptionCombinations ==
    (Merged /\ news_articles = <<>>) => combinations = option_combinations

\* C7: a generate_fragment call that fails for combination i does not abort
\* the batch: when the script run is over, every combination has had its own
\* generate_fragment call.
C7_FailureDoesNotAbortTheBatch ==
    ((pc = "raised" /\ raised = "generate_fragment")
        \/ (pc = "returned" /\ clicked = page)) =>
        \A j \in 1..Len(combinations) :
            contains(calls, <<"generate_fragment", "Machine", j>>)

\* The calls made for generated records.
MachineCalls == SelectSeq(calls, LAMBDA c : c[2] = "Machine")

C9_EmptyAxisYieldsNothing ==
    (\E j \in 1..Len(iter_selections) : iter_selections[j][2].val = <<>>) =>
        /\ raised # "expansion"
        /\ option_combinations = <<>>
        /\ combinations = <<>>
        /\ MachineCalls = <<>>

\* A run whose Selection Set has an empty axis beside a non-empty one has
\* gone through the expansion and the loop to the end of the page.
C9_Witness ==
    /\ pc = "returned"
    /\ clicked = page
    /\ \E j \in 1..Len(iter_selections) : iter_selections[j][2].val = <<>>
    /\ \E j \in 1..Len(iter_selections) : iter_selections[j][2].val # <<>>
    /\ combinations = <<>>

\* A taxonomy nested deeper than two levels: under category -> variant, a
\* sub-category whose value is a mapping instead of a list of strings.
DeeperThanTwoLevels(components) ==
    \E c \in 1..Len(components) :
        /\ components[c][2].kind = "dict"
        /\ \E w \in 1..Len(components[c][2].items) :
              LET variant == components[c][2].items[w][2]
              IN  /\ variant.kind = "dict"
                  /\ \E u \in 1..Len(variant.items) : variant.items[u][2].kind = "dict"

\* The taxonomy traversal has ended the script run with an exception.
TraversalRejected == pc = "raised" /\ raised = "collect_keys"

\* C11: a script run over a taxonomy nested deeper than two levels never gets
\* past the taxonomy traversal (collect_keys, then render_ui): a page is
\* either still in the traversal or the traversal has raised, so no page
\* goes on to its Generate button with selections that lack the deeper values.
C11_DeepTaxonomyIsRejected ==
    DeeperThanTwoLevels(data.Components) =>
        \/ pc \in {"keys", "extend", "render"} /\ page = "news"
        \/ TraversalRejected

\* C12: in both generation flows the free-text axes of the Selection Set are
\* the unknown placeholders of the template that is filled for each
\* combination (prompt_template), whatever the operator left in the
\* "Prompt Template" input: the template scanned is the template filled.
C12_ScannedTemplateIsFilledTemplate ==
    /\ uncovered_placeholders = not_in(findall(prompt_template), all_possible_keys)
    /\ pc = "save" => prompt_filled = fill(prompt_template, combinations[i])

=============================================================================
